---------------------------- MODULE Spec2Model ----------------------------
(***************************************************************************)
(* Model of Script_FTP_Integracao.py: the per-line reconciliation loop of  *)
(* process_and_insert_data, the driver lookup find_motorista, the CPF      *)
(* normalisation formatar_cpf and the end of main, against a store of four *)
(* tables (motorista, grid_ext, cad_veiculo, last_datastore).              *)
(*                                                                         *)
(* Text is a sequence of one-character strings.  A Python value that may   *)
(* be None is a sequence of length at most one: None is <<>> and a value x *)
(* is <<x>>.                                                               *)
(***************************************************************************)
EXTENDS Integers, Sequences, FiniteSets, TLC

(***************************************************************************)
(* Bounds of the model.                                                    *)
(***************************************************************************)
\* Largest number of lines of the downloaded file.
MaxLines == 2
\* Largest number of pieces an input of formatar_cpf is built from.
MaxPieces == 5

(***************************************************************************)
(* Python values and string methods.                                       *)
(***************************************************************************)
None == <<>>
Some(x) == <<x>>
Val(o) == o[1]

Digits == <<"0", "1", "2", "3", "4", "5", "6", "7", "8", "9">>
Lowercase == <<"a", "b", "c", "d", "e", "f", "g", "h", "i", "j", "k", "l", "m",
               "n", "o", "p", "q", "r", "s", "t", "u", "v", "w", "x", "y", "z">>
Uppercase == <<"A", "B", "C", "D", "E", "F", "G", "H", "I", "J", "K", "L", "M",
               "N", "O", "P", "Q", "R", "S", "T", "U", "V", "W", "X", "Y", "Z">>
Whitespace == {" ", "\t", "\n", "\r"}

IsDigit(c) == \E i \in 1..10 : Digits[i] = c
DigitValue(c) == (CHOOSE i \in 1..10 : Digits[i] = c) - 1

\* str.upper(), and SQL UPPER()
UpperChar(c) ==
    IF \E i \in 1..26 : Lowercase[i] = c
    THEN Uppercase[CHOOSE i \in 1..26 : Lowercase[i] = c]
    ELSE c
Upper(s) == [i \in 1..Len(s) |-> UpperChar(s[i])]

\* str.strip()
RECURSIVE LStrip(_)
LStrip(s) == IF s # <<>> /\ Head(s) \in Whitespace THEN LStrip(Tail(s)) ELSE s
RECURSIVE RStrip(_)
RStrip(s) ==
    IF s # <<>> /\ s[Len(s)] \in Whitespace
    THEN RStrip(SubSeq(s, 1, Len(s) - 1))
    ELSE s
Strip(s) == RStrip(LStrip(s))

\* str.split(sep) for a one-character separator
RECURSIVE SplitFrom(_, _, _)
SplitFrom(s, sep, cur) ==
    IF s = <<>> THEN <<cur>>
    ELSE IF Head(s) = sep THEN <<cur>> \o SplitFrom(Tail(s), sep, <<>>)
    ELSE SplitFrom(Tail(s), sep, Append(cur, Head(s)))
Split(s, sep) == SplitFrom(s, sep, <<>>)

\* s[:n]
Prefix(s, n) == SubSeq(s, 1, IF Len(s) < n THEN Len(s) ELSE n)

\* A character str.isdigit() takes for a digit and int() and \d do not: the
\* superscript two (U+00B2, byte B2 of latin-1), like the other characters of
\* Unicode that are digits without being decimal digits.
SuperscriptTwo == "²"

\* str.isdigit() on the characters of the model's alphabet
IsDigitStr(s) ==
    s # <<>> /\ \A i \in 1..Len(s) : IsDigit(s[i]) \/ s[i] = SuperscriptTwo

\* int(s): surrounding whitespace is ignored, one sign is allowed, and single
\* underscores may separate digits; anything else raises ValueError.
Unsigned(s) == IF s # <<>> /\ Head(s) \in {"+", "-"} THEN Tail(s) ELSE s
IsIntLiteral(s) ==
    LET u == Unsigned(Strip(s))
    IN  /\ u # <<>>
        /\ IsDigit(u[1])
        /\ IsDigit(u[Len(u)])
        /\ \A i \in 1..Len(u) : IsDigit(u[i]) \/ u[i] = "_"
        /\ \A i \in 1..(Len(u) - 1) : ~(u[i] = "_" /\ u[i + 1] = "_")
RECURSIVE DigitsValue(_, _)
DigitsValue(u, acc) ==
    IF u = <<>> THEN acc
    ELSE IF Head(u) = "_" THEN DigitsValue(Tail(u), acc)
    ELSE DigitsValue(Tail(u), 10 * acc + DigitValue(Head(u)))
IntValue(s) ==
    LET t == Strip(s)
        v == DigitsValue(Unsigned(t), 0)
    IN  IF t # <<>> /\ Head(t) = "-" THEN 0 - v ELSE v

\* SQL: s LIKE p, with the wildcards % and _
RECURSIVE Like(_, _)
Like(s, p) ==
    IF p = <<>> THEN s = <<>>
    ELSE IF Head(p) = "%"
         THEN \E k \in 0..Len(s) : Like(SubSeq(s, k + 1, Len(s)), Tail(p))
         ELSE /\ s # <<>>
              /\ (Head(p) = "_" \/ Head(p) = Head(s))
              /\ Like(Tail(s), Tail(p))

(***************************************************************************)
(* formatar_cpf                                                            *)
(***************************************************************************)
\* re.sub(r'\D', '', cpf)
OnlyDigits(s) == SelectSeq(s, IsDigit)

formatar_cpf_AtLeast11(cpf) ==
    IF cpf = <<>> \/ Strip(cpf) = <<>> THEN None
    ELSE LET d == OnlyDigits(cpf)
         IN  IF Len(d) >= 11
             THEN Some(SubSeq(d, 1, 3) \o <<".">> \o SubSeq(d, 4, 6) \o <<".">>
                       \o SubSeq(d, 7, 9) \o <<"-">> \o SubSeq(d, 10, Len(d)))
             ELSE None

formatar_cpf(cpf) ==
    IF cpf = <<>> \/ Strip(cpf) = <<>> THEN None
    ELSE LET d == OnlyDigits(cpf)
         IN  IF Len(d) = 11
             THEN Some(SubSeq(d, 1, 3) \o <<".">> \o SubSeq(d, 4, 6) \o <<".">>
                       \o SubSeq(d, 7, 9) \o <<"-">> \o SubSeq(d, 10, Len(d)))
             ELSE None


(***************************************************************************)
(* Program constants.                                                      *)
(***************************************************************************)
\* the column count below which a line is a layout error
MinCols == 17
\* cli_id
CliId == 269
\* the CODIGO_RDC_MOTORISTA that stands for "no driver"
NoDriverCode == 999999
\* the length mot_cid is cut to
CityMax == 25

(***************************************************************************)
(* The store before the run: rows other systems created.                   *)
(***************************************************************************)
Row(cli, nom, tel, cnh, cpf, rua, num, bai, cid, uf, mat) ==
    [cli_id |-> cli, mot_nom |-> nom, mot_tel |-> tel, mot_cnh |-> cnh,
     mot_cpf |-> cpf, mot_rua |-> rua, mot_num |-> num, mot_bai |-> bai,
     mot_cid |-> cid, mot_uf |-> uf, mot_mat |-> mat]

CpfAna == <<"1", "1", "1", ".", "2", "2", "2", ".", "3", "3", "3", "-", "4", "4">>
CpfBob == <<"9", "9", "9", ".", "8", "8", "8", ".", "7", "7", "7", "-", "6", "6">>

\* Rows 3 and 4 share a CPF and an uppercased name: the store enforces neither
\* to be unique.
InitialMotorista ==
    (1 :> Row(100, <<"A", "N", "A">>, Some(<<"5", "5">>), Some(<<"7", "7">>), Some(CpfAna), Some(<<"R", "u", "a", " ", "A">>),
              None, None, Some(<<"R", "i", "o">>), Some(<<"R", "J">>), Some(<<"M", "1">>)))
    @@ (2 :> Row(CliId, <<"A", "n", "a", " ", "L", "i", "m", "a">>, None, None, None, None,
                 None, None, None, None, None))
    @@ (3 :> Row(CliId, <<"B", "O", "B">>, None, Some(<<"8", "8">>), Some(CpfBob), None,
                 None, None, None, None, Some(<<"M", "3">>)))
    @@ (4 :> Row(100, <<"B", "o", "b">>, None, None, Some(CpfBob), None,
                 None, None, None, None, None))

InitialGridExt ==
    (1 :> [placa_car |-> <<"O", "L", "D", "1">>, mot_nom |-> <<"A", "N", "A">>, mot_id |-> Some(1)])
    @@ (2 :> [placa_car |-> <<"O", "L", "D", "2">>, mot_nom |-> <<>>, mot_id |-> None])

InitialCadVeiculo ==
    (1 :> [vei_plc |-> <<"P", "L", "C", "1">>]) @@ (2 :> [vei_plc |-> <<"P", "L", "C", "2">>])

\* vehicle 2 has no row in last_datastore; vehicle 3 has a row in no table
InitialLastDatastore == {1}

\* the next value of the sequence behind motorista.mot_id
InitialMotIdSeq == 5

(***************************************************************************)
(* The downloaded file: lines of ';'-separated fields, each ending in a    *)
(* line break.  Columns 0, 1, 4, 5, 6, 7, 9, 10, 12..16 are read.          *)
(***************************************************************************)
Sep == <<";">>

\* a CPF of the store, unformatted; a name equal to two other stored names;
\* an eighteenth column
LineCpfMatch ==
    <<"1">> \o Sep \o <<"N", "E", "W", "1">> \o Sep \o <<>> \o Sep \o <<>>
      \o Sep \o <<"B", "o", "b">> \o Sep \o <<"T", "R", "1">>
      \o Sep \o <<"7">> \o Sep \o <<"5", "5">> \o Sep \o <<>> \o Sep \o <<>>
      \o Sep \o <<"1", "1", "1", "2", "2", "2", "3", "3", "3", "4", "4">>
      \o Sep \o <<>> \o Sep \o <<"R", "u", "a", " ", "B">> \o Sep \o <<"9">>
      \o Sep \o <<"C", "e", "n", "t", "r", "o">>
      \o Sep \o <<"S", "a", "n", "t", "o", "s">> \o Sep \o <<"S", "P">>
      \o Sep \o <<"e", "x", "t", "r", "a">> \o <<"\n">>
\* a CPF of the store, formatted; a name that matches no stored name
LineCpfOnly ==
    <<"2">> \o Sep \o <<"N", "E", "W", "8">> \o Sep \o <<>> \o Sep \o <<>>
      \o Sep \o <<"Z", "e", "d">> \o Sep \o <<"T", "R", "8">> \o Sep \o <<>>
      \o Sep \o <<>> \o Sep \o <<>> \o Sep \o <<>>
      \o Sep \o <<"1", "1", "1", ".", "2", "2", "2", ".", "3", "3", "3", "-", "4", "4">>
      \o Sep \o <<>> \o Sep \o <<>> \o Sep \o <<>> \o Sep \o <<>>
      \o Sep \o <<>> \o Sep \o <<>> \o <<"\n">>
\* no CPF, a name equal (uppercased) to two stored names, the "no driver" code
LineTwoExact ==
    <<"1">> \o Sep \o <<"N", "E", "W", "2">> \o Sep \o <<>> \o Sep \o <<>>
      \o Sep \o <<"b", "o", "b">> \o Sep \o <<"T", "R", "2">>
      \o Sep \o <<"9", "9", "9", "9", "9", "9">> \o Sep \o <<>> \o Sep \o <<>>
      \o Sep \o <<"8", "8">> \o Sep \o <<>> \o Sep \o <<>> \o Sep \o <<>>
      \o Sep \o <<>> \o Sep \o <<>> \o Sep \o <<>> \o Sep \o <<>> \o <<"\n">>
\* a CPF that is not 11 digits, a name contained in two stored names
LineAmbiguous ==
    <<" ", "2", " ">> \o Sep \o <<" ", "N", "E", "W", "3">> \o Sep \o <<>>
      \o Sep \o <<>> \o Sep \o <<" ", "A", "n", " ">>
      \o Sep \o <<"T", "R", "3", " ">> \o Sep \o <<"x">> \o Sep \o <<" ">>
      \o Sep \o <<>> \o Sep \o <<" ">> \o Sep \o <<"1", "2", "3">>
      \o Sep \o <<>> \o Sep \o <<" ">> \o Sep \o <<>> \o Sep \o <<>>
      \o Sep \o <<>> \o Sep \o <<"R", "J">> \o <<"\n">>
\* a vehicle no table holds, a blank name, an unknown CPF, a long city
LineNoVehicle ==
    <<"3">> \o Sep \o <<"N", "E", "W", "4">> \o Sep \o <<>> \o Sep \o <<>>
      \o Sep \o <<>> \o Sep \o <<"T", "R", "4">> \o Sep \o <<>>
      \o Sep \o <<"9">> \o Sep \o <<>> \o Sep \o <<>>
      \o Sep \o <<"5", "5", "5", ".", "6", "6", "6", ".", "7", "7", "7", "-", "8", "8">>
      \o Sep \o <<>> \o Sep \o <<"R", "u", "a", " ", "B">> \o Sep \o <<"7">>
      \o Sep \o <<>>
      \o Sep \o <<"S", "a", "o", " ", "J", "o", "s", "e", " ", "d", "o", " ", "R", "i", "o", " ", "P", "r", "e", "t", "o", " ", "d", "o", " ", "S", "u", "l">>
      \o Sep \o <<"M", "G">> \o <<"\n">>
\* no CPF, a name equal (uppercased) to one stored name
LineExactOne ==
    <<"2">> \o Sep \o <<"N", "E", "W", "5">> \o Sep \o <<>> \o Sep \o <<>>
      \o Sep \o <<"a", "n", "a", " ", "l", "i", "m", "a">> \o Sep \o <<"T", "R", "5">>
      \o Sep \o <<"7">> \o Sep \o <<>> \o Sep \o <<>> \o Sep \o <<>>
      \o Sep \o <<"-", "-">> \o Sep \o <<>> \o Sep \o <<>> \o Sep \o <<>>
      \o Sep \o <<>> \o Sep \o <<>> \o Sep \o <<>> \o <<"\n">>
\* no CPF, a name contained in one stored name only
LineSubstring ==
    <<"1">> \o Sep \o <<"N", "E", "W", "6">> \o Sep \o <<>> \o Sep \o <<>>
      \o Sep \o <<"L", "i", "m", "a">> \o Sep \o <<"T", "R", "6">>
      \o Sep \o <<>> \o Sep \o <<"5", "5">> \o Sep \o <<>> \o Sep \o <<>>
      \o Sep \o <<>> \o Sep \o <<>> \o Sep \o <<>> \o Sep \o <<>>
      \o Sep \o <<"C", "e", "n", "t", "r", "o">> \o Sep \o <<>> \o Sep \o <<>>
      \o <<"\n">>
\* ten columns
LineTenColumns ==
    <<"1">> \o Sep \o <<"N", "E", "W", "7">> \o Sep \o <<>> \o Sep \o <<>>
      \o Sep \o <<"Z", "e", "d">> \o Sep \o <<"T", "R", "1">> \o Sep \o <<>>
      \o Sep \o <<>> \o Sep \o <<>> \o Sep \o <<>> \o <<"\n">>
\* sixteen columns
LineSixteenColumns ==
    <<"2">> \o Sep \o <<"N", "E", "W", "7">> \o Sep \o <<>> \o Sep \o <<>>
      \o Sep \o <<"Z", "e", "d">> \o Sep \o <<"T", "R", "1">> \o Sep \o <<>>
      \o Sep \o <<>> \o Sep \o <<>> \o Sep \o <<>>
      \o Sep \o <<"1", "1", "1", "2", "2", "2", "3", "3", "3", "4", "4">>
      \o Sep \o <<>> \o Sep \o <<>> \o Sep \o <<>> \o Sep \o <<>>
      \o Sep \o <<>> \o <<"\n">>
\* a vehicle identifier that is no integer
LineBadVehicle ==
    <<"x", "1">> \o Sep \o <<"N", "E", "W", "7">> \o Sep \o <<>>
      \o Sep \o <<>> \o Sep \o <<"Z", "e", "d">> \o Sep \o <<"T", "R", "1">>
      \o Sep \o <<"7">> \o Sep \o <<>> \o Sep \o <<>> \o Sep \o <<>>
      \o Sep \o <<"1", "1", "1", "2", "2", "2", "3", "3", "3", "4", "4">>
      \o Sep \o <<>> \o Sep \o <<>> \o Sep \o <<>> \o Sep \o <<>>
      \o Sep \o <<>> \o Sep \o <<>> \o <<"\n">>
\* LineSubstring with another driver reference code: a superscript two
LineSuperscriptRef ==
    <<"1">> \o Sep \o <<"N", "E", "W", "6">> \o Sep \o <<>> \o Sep \o <<>>
      \o Sep \o <<"L", "i", "m", "a">> \o Sep \o <<"T", "R", "6">>
      \o Sep \o <<SuperscriptTwo>> \o Sep \o <<"5", "5">> \o Sep \o <<>> \o Sep \o <<>>
      \o Sep \o <<>> \o Sep \o <<>> \o Sep \o <<>> \o Sep \o <<>>
      \o Sep \o <<"C", "e", "n", "t", "r", "o">> \o Sep \o <<>> \o Sep \o <<>>
      \o <<"\n">>
\* the CPF two stored drivers share; a name that matches no stored name
LineSharedCpf ==
    <<"2">> \o Sep \o <<"N", "E", "W", "9">> \o Sep \o <<>> \o Sep \o <<>>
      \o Sep \o <<"Z", "e", "d">> \o Sep \o <<"T", "R", "9">> \o Sep \o <<>>
      \o Sep \o <<>> \o Sep \o <<>> \o Sep \o <<>>
      \o Sep \o <<"9", "9", "9", ".", "8", "8", "8", ".", "7", "7", "7", "-", "6", "6">>
      \o Sep \o <<>> \o Sep \o <<>> \o Sep \o <<>> \o Sep \o <<>>
      \o Sep \o <<>> \o Sep \o <<>> \o <<"\n">>

Lines ==
    <<LineCpfMatch, LineCpfOnly, LineTwoExact, LineAmbiguous, LineNoVehicle,
      LineExactOne, LineSubstring, LineTenColumns, LineSixteenColumns,
      LineBadVehicle, LineSuperscriptRef, LineSharedCpf>>

\* the files of at most MaxLines lines, each line named by its place in Lines
RECURSIVE FilesOfLength(_)
FilesOfLength(n) ==
    IF n = 0 THEN {<<>>}
    ELSE {Append(f, i) : f \in FilesOfLength(n - 1), i \in 1..Len(Lines)}
Files == UNION {FilesOfLength(n) : n \in 1..MaxLines}

(***************************************************************************)
(* State.                                                                  *)
(***************************************************************************)
VARIABLES
    file_content,    \* the lines read from the file, as places in Lines
    line_number,     \* the number of the line the loop is at (0 before the first)
    pc,              \* the statement the script is about to run
    conn,            \* "open", or "lost" once the connection is severed
    motorista,       \* the tables as the connection's session sees them
    grid_ext,
    cad_veiculo,
    last_datastore,
    mot_id_seq,      \* the next value of the sequence behind motorista.mot_id
    committed,       \* the four tables as last committed
    local,           \* the loop body's local variables
    before,          \* history: the four tables when the current line was read
    outcome,         \* history: how the last line ended
    failed_at,       \* history: the statement that raised for the current line
    commits,         \* history: the records committed so far, in order
    log,             \* the logged messages that tell how a line or the run ended
    cpf              \* a call of formatar_cpf on its own: input, results, stage

vars ==
    <<file_content, line_number, pc, conn, motorista, grid_ext, cad_veiculo,
      last_datastore, mot_id_seq, committed, local, before, outcome, failed_at,
      commits, log, cpf>>

tables == <<motorista, grid_ext, cad_veiculo, last_datastore>>
history == <<before, outcome, failed_at, commits>>

Tables ==
    [motorista |-> motorista, grid_ext |-> grid_ext,
     cad_veiculo |-> cad_veiculo, last_datastore |-> last_datastore]

\* Python truthiness: of a str, of an int or None, of a str or None
TruthyStr(s) == s # <<>>
TruthyInt(o) == o # None /\ Val(o) # 0
Truthy(o) == o # None /\ Val(o) # <<>>

(***************************************************************************)
(* The loop body up to the transaction (lines 186-217).                    *)
(***************************************************************************)
EmDefinicao == <<"E", "M", " ", "D", "E", "F", "I", "N", "I", "C", "A", "O">>

\* data = line.strip().split(';')
DataOf(line) == Split(Strip(line), ";")

LayoutError_Sixteen(data) == Len(data) < MinCols - 1

\* len(data) < 17
LayoutError(data) == Len(data) < MinCols

\* int(data[0]) raises ValueError, or int(data[6]) does: it is reached only
\* when data[6].isdigit()
InvalidId(data) ==
    \/ ~IsIntLiteral(data[1])
    \/ IsDigitStr(data[7]) /\ ~IsIntLiteral(data[7])

StripOrNone(f) == IF TruthyStr(f) /\ TruthyStr(Strip(f)) THEN Some(Strip(f)) ELSE None
StripIfAny(f) == IF TruthyStr(f) THEN Some(Strip(f)) ELSE None

ParseFields_RawCpf(data) ==
    LET ref == IF IsDigitStr(data[7]) THEN Some(IntValue(data[7])) ELSE None
    IN  [vei_id    |-> IntValue(data[1]),
         mot_id    |-> IF ref = Some(NoDriverCode) THEN None ELSE ref,
         vei_plc   |-> Strip(data[2]),
         mot_nom   |-> IF TruthyStr(data[5]) /\ Strip(data[5]) # EmDefinicao
                       THEN Strip(data[5]) ELSE EmDefinicao,
         placa_car |-> Strip(data[6]),
         mot_tel   |-> StripOrNone(data[8]),
         mot_cnh   |-> StripOrNone(data[10]),
         mot_cpf   |-> StripOrNone(data[11]),
         mot_rua   |-> StripIfAny(data[13]),
         mot_num   |-> StripIfAny(data[14]),
         mot_bai   |-> IF Len(data) > 14 /\ TruthyStr(data[15])
                       THEN Some(Strip(data[15])) ELSE None,
         mot_cid   |-> IF Len(data) > 15 /\ TruthyStr(data[16])
                       THEN Some(Strip(Prefix(data[16], CityMax))) ELSE None,
         mot_uf    |-> IF Len(data) > 16 /\ TruthyStr(data[17])
                       THEN Some(Strip(data[17])) ELSE None,
         existing_mot_id |-> None]

\* lines 193-215: the local variables of a line that passed both checks
ParseFields(data) ==
    LET ref == IF IsDigitStr(data[7]) THEN Some(IntValue(data[7])) ELSE None
    IN  [vei_id    |-> IntValue(data[1]),
         mot_id    |-> IF ref = Some(NoDriverCode) THEN None ELSE ref,
         vei_plc   |-> Strip(data[2]),
         mot_nom   |-> IF TruthyStr(data[5]) /\ Strip(data[5]) # EmDefinicao
                       THEN Strip(data[5]) ELSE EmDefinicao,
         placa_car |-> Strip(data[6]),
         mot_tel   |-> StripOrNone(data[8]),
         mot_cnh   |-> StripOrNone(data[10]),
         mot_cpf   |-> IF TruthyStr(data[11]) THEN formatar_cpf(data[11]) ELSE None,
         mot_rua   |-> StripIfAny(data[13]),
         mot_num   |-> StripIfAny(data[14]),
         mot_bai   |-> IF Len(data) > 14 /\ TruthyStr(data[15])
                       THEN Some(Strip(data[15])) ELSE None,
         mot_cid   |-> IF Len(data) > 15 /\ TruthyStr(data[16])
                       THEN Some(Strip(Prefix(data[16], CityMax))) ELSE None,
         mot_uf    |-> IF Len(data) > 16 /\ TruthyStr(data[17])
                       THEN Some(Strip(data[17])) ELSE None,
         existing_mot_id |-> None]

NoLocals ==
    [vei_id |-> 0, mot_id |-> None, vei_plc |-> <<>>, mot_nom |-> <<>>,
     placa_car |-> <<>>, mot_tel |-> None, mot_cnh |-> None, mot_cpf |-> None,
     mot_rua |-> None, mot_num |-> None, mot_bai |-> None, mot_cid |-> None,
     mot_uf |-> None, existing_mot_id |-> None]

(***************************************************************************)
(* find_motorista (lines 127-156).  fetchone() returns any one row of the  *)
(* result: the query has no ORDER BY.  The operator is the set of values   *)
(* the call can return.                                                    *)
(***************************************************************************)
ByCpf(mot, mot_cpf) == {d \in DOMAIN mot : mot[d].mot_cpf = mot_cpf}
ByExactName(mot, clean) == {d \in DOMAIN mot : Upper(mot[d].mot_nom) = clean}
BySimilarName(mot, clean) ==
    {d \in DOMAIN mot :
        \/ Like(Upper(mot[d].mot_nom), clean \o <<"%">>)
        \/ Like(Upper(mot[d].mot_nom), <<"%">> \o clean \o <<"%">>)}

find_motorista_NameFirst(mot, mot_nom, mot_cpf) ==
    LET clean == Upper(Strip(mot_nom))
    IN  IF ByExactName(mot, clean) # {}
        THEN {Some(d) : d \in ByExactName(mot, clean)}
        ELSE IF Truthy(mot_cpf) /\ ByCpf(mot, mot_cpf) # {}
        THEN {Some(d) : d \in ByCpf(mot, mot_cpf)}
        ELSE IF Cardinality(BySimilarName(mot, clean)) = 1
        THEN {Some(d) : d \in BySimilarName(mot, clean)}
        ELSE {None}

find_motorista(mot, mot_nom, mot_cpf) ==
    LET clean == Upper(Strip(mot_nom))
    IN  IF Truthy(mot_cpf) /\ ByCpf(mot, mot_cpf) # {}
        THEN {Some(d) : d \in ByCpf(mot, mot_cpf)}
        ELSE IF ByExactName(mot, clean) # {}
        THEN {Some(d) : d \in ByExactName(mot, clean)}
        ELSE IF Cardinality(BySimilarName(mot, clean)) = 1
        THEN {Some(d) : d \in BySimilarName(mot, clean)}
        ELSE {None}

(***************************************************************************)
(* The log: of the messages the script logs, those that tell how a line    *)
(* or the run ended (lines 189, 196, 285, 289, 294 and 327).               *)
(***************************************************************************)
LayoutWarning(n) ==
    [level |-> "WARNING", msg |-> "Erro no layout da linha", line |-> n]
InvalidIdWarning(n) ==
    [level |-> "WARNING",
     msg |-> "ID_FROTA_HPS ou CODIGO_RDC_MOTORISTA invalido na linha", line |-> n]
CommitInfo(n) ==
    [level |-> "INFO", msg |-> "Transacao commitada para linha", line |-> n]
TransactionError(n) ==
    [level |-> "ERROR", msg |-> "Erro na transacao linha", line |-> n]
FileError == [level |-> "ERROR", msg |-> "Erro ao processar o arquivo"]
SuccessInfo == [level |-> "INFO", msg |-> "Processo concluido com sucesso!"]

(***************************************************************************)
(* Init: main() has connected and downloaded a file (lines 301-312), and   *)
(* process_and_insert_data has read its lines (lines 159-182).             *)
(***************************************************************************)
NoCpfCall == [inp |-> <<>>, n |-> 0, stage |-> "idle", out |-> None, again |-> None]

Init ==
    /\ file_content \in Files
    /\ line_number = 0
    /\ pc = "loop"
    /\ conn = "open"
    /\ motorista = InitialMotorista
    /\ grid_ext = InitialGridExt
    /\ cad_veiculo = InitialCadVeiculo
    /\ last_datastore = InitialLastDatastore
    /\ mot_id_seq = InitialMotIdSeq
    /\ committed = Tables
    /\ local = NoLocals
    /\ before = Tables
    /\ outcome = "none"
    /\ failed_at = "none"
    /\ commits = <<>>
    /\ log = <<>>
    /\ cpf = NoCpfCall

\* the statements of the transaction, in order
TxSteps ==
    <<"begin", "find", "upsert", "grid_ext", "cad_veiculo", "last_datastore",
      "commit">>
InTx == {TxSteps[i] : i \in 1..Len(TxSteps)}

\* data, for the line the for loop takes next
NextData == DataOf(Lines[file_content[line_number + 1]])

\* line 185: the loop takes a line
TakeLine ==
    /\ pc = "loop"
    /\ line_number < Len(file_content)
    /\ line_number' = line_number + 1
    /\ before' = Tables
    /\ failed_at' = "none"
    /\ UNCHANGED <<cpf, file_content, conn, tables, mot_id_seq, committed, commits>>

\* lines 188-190: too few columns, the line is skipped
SkipLayout ==
    /\ TakeLine
    /\ LayoutError(NextData)
    /\ pc' = "loop"
    /\ outcome' = "layout"
    /\ log' = Append(log, LayoutWarning(line_number'))
    /\ UNCHANGED local

\* lines 192-197: ValueError, the line is skipped
SkipInvalidId ==
    /\ TakeLine
    /\ ~LayoutError(NextData)
    /\ InvalidId(NextData)
    /\ pc' = "loop"
    /\ outcome' = "invalid"
    /\ log' = Append(log, InvalidIdWarning(line_number'))
    /\ UNCHANGED local

\* lines 193-221: the fields are read and a cursor is opened
ParseLine ==
    /\ TakeLine
    /\ ~LayoutError(NextData)
    /\ ~InvalidId(NextData)
    /\ local' = ParseFields(NextData)
    /\ pc' = "begin"
    /\ outcome' = "open"
    /\ UNCHANGED log

\* line 223: BEGIN
Begin ==
    /\ pc = "begin"
    /\ pc' = "find"
    /\ UNCHANGED <<cpf, log, file_content, line_number, conn, tables, mot_id_seq, committed,
                   local, history>>

\* line 225: existing_mot_id = find_motorista(cursor, mot_nom, mot_cpf)
FindMotorista ==
    /\ pc = "find"
    /\ \E r \in find_motorista(motorista, local.mot_nom, local.mot_cpf) :
          local' = [local EXCEPT !.existing_mot_id = r]
    /\ pc' = "upsert"
    /\ UNCHANGED <<cpf, log, file_content, line_number, conn, tables, mot_id_seq, committed,
                   history>>

UpdateMotorista_ClearsMat ==
    /\ pc = "upsert"
    /\ TruthyInt(local.existing_mot_id)
    /\ LET d == Val(local.existing_mot_id)
       IN  /\ local' = [local EXCEPT !.mot_id = Some(d)]
           /\ motorista' =
                 [m \in DOMAIN motorista |->
                    IF m = d
                    THEN Row(CliId, local.mot_nom, local.mot_tel, local.mot_cnh,
                             local.mot_cpf, local.mot_rua, local.mot_num,
                             local.mot_bai, local.mot_cid, local.mot_uf, None)
                    ELSE motorista[m]]
    /\ pc' = "grid_ext"
    /\ UNCHANGED <<cpf, log, file_content, line_number, conn, grid_ext, cad_veiculo,
                   last_datastore, mot_id_seq, committed, history>>

UpdateMotorista_KeepsName ==
    /\ pc = "upsert"
    /\ TruthyInt(local.existing_mot_id)
    /\ LET d == Val(local.existing_mot_id)
       IN  /\ local' = [local EXCEPT !.mot_id = Some(d)]
           /\ motorista' =
                 [m \in DOMAIN motorista |->
                    IF m = d
                    THEN [motorista[m] EXCEPT
                            !.cli_id = CliId,
                            !.mot_tel = local.mot_tel, !.mot_cnh = local.mot_cnh,
                            !.mot_cpf = local.mot_cpf, !.mot_rua = local.mot_rua,
                            !.mot_num = local.mot_num, !.mot_bai = local.mot_bai,
                            !.mot_cid = local.mot_cid, !.mot_uf = local.mot_uf]
                    ELSE motorista[m]]
    /\ pc' = "grid_ext"
    /\ UNCHANGED <<cpf, log, file_content, line_number, conn, grid_ext, cad_veiculo,
                   last_datastore, mot_id_seq, committed, history>>

\* lines 227-238: UPDATE motorista SET ... WHERE mot_id = existing_mot_id
UpdateMotorista ==
    /\ pc = "upsert"
    /\ TruthyInt(local.existing_mot_id)
    /\ LET d == Val(local.existing_mot_id)
       IN  /\ local' = [local EXCEPT !.mot_id = Some(d)]
           /\ motorista' =
                 [m \in DOMAIN motorista |->
                    IF m = d
                    THEN [motorista[m] EXCEPT
                            !.cli_id = CliId, !.mot_nom = local.mot_nom,
                            !.mot_tel = local.mot_tel, !.mot_cnh = local.mot_cnh,
                            !.mot_cpf = local.mot_cpf, !.mot_rua = local.mot_rua,
                            !.mot_num = local.mot_num, !.mot_bai = local.mot_bai,
                            !.mot_cid = local.mot_cid, !.mot_uf = local.mot_uf]
                    ELSE motorista[m]]
    /\ pc' = "grid_ext"
    /\ UNCHANGED <<cpf, log, file_content, line_number, conn, grid_ext, cad_veiculo,
                   last_datastore, mot_id_seq, committed, history>>

InsertMotorista_KeepsRef ==
    /\ pc = "upsert"
    /\ ~TruthyInt(local.existing_mot_id)
    /\ mot_id_seq \notin DOMAIN motorista
    /\ motorista' =
          motorista @@
          (mot_id_seq :>
             Row(CliId, local.mot_nom, local.mot_tel, local.mot_cnh,
                 local.mot_cpf, local.mot_rua, local.mot_num, local.mot_bai,
                 local.mot_cid, local.mot_uf, None))
    /\ mot_id_seq' = mot_id_seq + 1
    /\ pc' = "grid_ext"
    /\ UNCHANGED <<cpf, log, file_content, line_number, conn, grid_ext, cad_veiculo,
                   last_datastore, committed, local, history>>

\* lines 239-249: INSERT INTO motorista ... RETURNING mot_id
InsertMotorista ==
    /\ pc = "upsert"
    /\ ~TruthyInt(local.existing_mot_id)
    /\ mot_id_seq \notin DOMAIN motorista
    /\ motorista' =
          motorista @@
          (mot_id_seq :>
             Row(CliId, local.mot_nom, local.mot_tel, local.mot_cnh,
                 local.mot_cpf, local.mot_rua, local.mot_num, local.mot_bai,
                 local.mot_cid, local.mot_uf, None))
    /\ local' = [local EXCEPT !.mot_id = Some(mot_id_seq)]
    /\ mot_id_seq' = mot_id_seq + 1
    /\ pc' = "grid_ext"
    /\ UNCHANGED <<cpf, log, file_content, line_number, conn, grid_ext, cad_veiculo,
                   last_datastore, committed, history>>

UpdateGridExt_NoWhere ==
    /\ pc = "grid_ext"
    /\ grid_ext' =
          [v \in DOMAIN grid_ext |->
             [grid_ext[v] EXCEPT !.placa_car = local.placa_car,
                                 !.mot_nom = local.mot_nom,
                                 !.mot_id = local.mot_id]]
    /\ pc' = "cad_veiculo"
    /\ UNCHANGED <<cpf, log, file_content, line_number, conn, motorista, cad_veiculo,
                   last_datastore, mot_id_seq, committed, local, history>>

\* lines 251-262: UPDATE grid_ext SET placa_car, mot_nom, mot_id WHERE vei_id
UpdateGridExt ==
    /\ pc = "grid_ext"
    /\ grid_ext' =
          [v \in DOMAIN grid_ext |->
             IF v = local.vei_id
             THEN [grid_ext[v] EXCEPT !.placa_car = local.placa_car,
                                      !.mot_nom = local.mot_nom,
                                      !.mot_id = local.mot_id]
             ELSE grid_ext[v]]
    /\ pc' = "cad_veiculo"
    /\ UNCHANGED <<cpf, log, file_content, line_number, conn, motorista, cad_veiculo,
                   last_datastore, mot_id_seq, committed, local, history>>

\* lines 264-272: UPDATE cad_veiculo SET vei_plc WHERE vei_id
UpdateCadVeiculo ==
    /\ pc = "cad_veiculo"
    /\ cad_veiculo' =
          [v \in DOMAIN cad_veiculo |->
             IF v = local.vei_id
             THEN [cad_veiculo[v] EXCEPT !.vei_plc = local.vei_plc]
             ELSE cad_veiculo[v]]
    /\ pc' = "last_datastore"
    /\ UNCHANGED <<cpf, log, file_content, line_number, conn, motorista, grid_ext,
                   last_datastore, mot_id_seq, committed, local, history>>

UpdateLastDatastore_Inserts ==
    /\ pc = "last_datastore"
    /\ last_datastore' = last_datastore \cup {local.vei_id}
    /\ pc' = "commit"
    /\ UNCHANGED <<cpf, log, file_content, line_number, conn, motorista, grid_ext,
                   cad_veiculo, mot_id_seq, committed, local, history>>

\* lines 274-282: UPDATE last_datastore SET vei_id = vei_id WHERE vei_id
UpdateLastDatastore ==
    /\ pc = "last_datastore"
    /\ last_datastore' =
          {IF v = local.vei_id THEN local.vei_id ELSE v : v \in last_datastore}
    /\ pc' = "commit"
    /\ UNCHANGED <<cpf, log, file_content, line_number, conn, motorista, grid_ext,
                   cad_veiculo, mot_id_seq, committed, local, history>>

\* lines 284-285: COMMIT
Commit ==
    /\ pc = "commit"
    /\ committed' = Tables
    /\ pc' = "loop"
    /\ outcome' = "committed"
    /\ commits' = Append(commits, [line |-> line_number, vei_id |-> local.vei_id,
                                   mot_id |-> local.mot_id,
                                   placa_car |-> local.placa_car,
                                   mot_nom |-> local.mot_nom,
                                   vei_plc |-> local.vei_plc])
    /\ log' = Append(log, CommitInfo(line_number))
    /\ UNCHANGED <<cpf, file_content, line_number, conn, tables, mot_id_seq, local,
                   before, failed_at>>

\* line 287: a statement of the transaction raises (a constraint, a value too
\* long for its column, a lock timeout); the statement changes no row
StatementError ==
    /\ pc \in InTx
    /\ failed_at' = pc
    /\ pc' = "rollback"
    /\ UNCHANGED <<cpf, log, file_content, line_number, conn, tables, mot_id_seq, committed,
                   local, before, outcome, commits>>

Rollback_AbortsBatch ==
    /\ pc = "rollback"
    /\ motorista' = committed.motorista
    /\ grid_ext' = committed.grid_ext
    /\ cad_veiculo' = committed.cad_veiculo
    /\ last_datastore' = committed.last_datastore
    /\ pc' = "returned"
    /\ outcome' = "failed"
    /\ log' = Append(log, TransactionError(line_number))
    /\ UNCHANGED <<cpf, file_content, line_number, conn, mot_id_seq, committed, local,
                   before, failed_at, commits>>

Rollback_KeepsWrites ==
    /\ pc = "rollback"
    /\ pc' = "loop"
    /\ outcome' = "failed"
    /\ log' = Append(log, TransactionError(line_number))
    /\ UNCHANGED <<cpf, file_content, line_number, conn, tables, mot_id_seq, committed,
                   local, before, failed_at, commits>>

\* lines 288-289: ROLLBACK; the session's tables are those last committed,
\* the sequence keeps the values it gave out
Rollback ==
    /\ pc = "rollback"
    /\ motorista' = committed.motorista
    /\ grid_ext' = committed.grid_ext
    /\ cad_veiculo' = committed.cad_veiculo
    /\ last_datastore' = committed.last_datastore
    /\ pc' = "loop"
    /\ outcome' = "failed"
    /\ log' = Append(log, TransactionError(line_number))
    /\ UNCHANGED <<cpf, file_content, line_number, conn, mot_id_seq, committed, local,
                   before, failed_at, commits>>

\* The connection is severed during a statement of the transaction or during
\* ROLLBACK: the statement raises, ROLLBACK (line 288) raises too, line 289 is
\* not reached, the handler of line 293 logs and ends the loop; the server
\* discards the open transaction.
ConnectionLost ==
    /\ pc \in InTx \cup {"rollback"}
    /\ conn' = "lost"
    /\ motorista' = committed.motorista
    /\ grid_ext' = committed.grid_ext
    /\ cad_veiculo' = committed.cad_veiculo
    /\ last_datastore' = committed.last_datastore
    /\ pc' = "returned"
    /\ outcome' = "aborted"
    /\ log' = Append(log, FileError)
    /\ UNCHANGED <<cpf, file_content, line_number, mot_id_seq, committed, local,
                   before, failed_at, commits>>

\* the for loop of line 185 is out of lines
EndOfFile ==
    /\ pc = "loop"
    /\ line_number = Len(file_content)
    /\ pc' = "returned"
    /\ UNCHANGED <<cpf, log, file_content, line_number, conn, tables, mot_id_seq, committed,
                   local, history>>

\* lines 316-328: process_and_insert_data has returned (it returns nothing);
\* main closes the connection, removes the file and logs the end of the run
MainReport ==
    /\ pc = "returned"
    /\ pc' = "done"
    /\ log' = Append(log, SuccessInfo)
    /\ UNCHANGED <<cpf, file_content, line_number, conn, tables, mot_id_seq,
                   committed, local, history>>

Next ==
    \/ SkipLayout
    \/ SkipInvalidId
    \/ ParseLine
    \/ Begin
    \/ FindMotorista
    \/ UpdateMotorista
    \/ InsertMotorista
    \/ UpdateGridExt
    \/ UpdateCadVeiculo
    \/ UpdateLastDatastore
    \/ Commit
    \/ StatementError
    \/ Rollback
    \/ ConnectionLost
    \/ EndOfFile
    \/ MainReport

Spec == Init /\ [][Next]_vars

\* The script is one thread that runs on until main has logged the end of the
\* run: weak fairness of Next, WF_vars(Next).  It is written out as
\* []<>~ENABLED <<Next>>_vars \/ []<><<Next>>_vars with what the two parts are in
\* the behaviours of Spec: a step of Next is possible exactly when main is not
\* done, and every step that changes vars is a step of Next.
Returned == pc = "returned"
Done == pc = "done"
FairSpec == Spec /\ ([]<>Done \/ []<><<TRUE>>_vars)

(***************************************************************************)
(* formatar_cpf on its own: an input is put together from pieces, then     *)
(* formatted, then the result is formatted again.                          *)
(***************************************************************************)
CpfPieces ==
    <<<<"1", "2", "3">>, <<"1", "2", "3", ".">>, <<"-", "4", "5">>, <<"4", "5">>,
      <<" ">>>>

InitCpf ==
    /\ cpf = [NoCpfCall EXCEPT !.stage = "input"]
    /\ file_content = <<>>
    /\ line_number = 0
    /\ pc = "returned"
    /\ conn = "open"
    /\ motorista = InitialMotorista
    /\ grid_ext = InitialGridExt
    /\ cad_veiculo = InitialCadVeiculo
    /\ last_datastore = InitialLastDatastore
    /\ mot_id_seq = InitialMotIdSeq
    /\ committed = Tables
    /\ local = NoLocals
    /\ before = Tables
    /\ outcome = "none"
    /\ failed_at = "none"
    /\ commits = <<>>
    /\ log = <<>>

notcpf ==
    <<file_content, line_number, pc, conn, motorista, grid_ext, cad_veiculo,
      last_datastore, mot_id_seq, committed, local, before, outcome, failed_at,
      commits, log>>

CpfAppend ==
    /\ cpf.stage = "input"
    /\ cpf.n < MaxPieces
    /\ \E i \in 1..Len(CpfPieces) :
          cpf' = [cpf EXCEPT !.inp = cpf.inp \o CpfPieces[i], !.n = cpf.n + 1]
    /\ UNCHANGED notcpf

\* formatar_cpf(data[10])
CpfFormat ==
    /\ cpf.stage = "input"
    /\ cpf' = [cpf EXCEPT !.out = formatar_cpf(cpf.inp), !.stage = "formatted"]
    /\ UNCHANGED notcpf

\* formatar_cpf of a value formatar_cpf returned
CpfFormatAgain ==
    /\ cpf.stage = "formatted"
    /\ cpf.out # None
    /\ cpf' = [cpf EXCEPT !.again = formatar_cpf(Val(cpf.out)),
                          !.stage = "formatted again"]
    /\ UNCHANGED notcpf

NextCpf ==
    \/ CpfAppend
    \/ CpfFormat
    \/ CpfFormatAgain

SpecCpf == InitCpf /\ [][NextCpf]_vars

(***************************************************************************)
(* Properties.                                                             *)
(***************************************************************************)
\* the line the loop is at, the number of its fields and its first field
CurrentLine == Lines[file_content[line_number]]
Semicolons(line) == {i \in 1..Len(line) : line[i] = ";"}
FieldCount(line) == 1 + Cardinality(Semicolons(line))
FirstField(line) ==
    LET semis == Semicolons(line)
    IN  IF semis = {} THEN line
        ELSE LET first == CHOOSE i \in semis : \A j \in semis : i <= j
             IN  SubSeq(line, 1, first - 1)

\* the loop is between two lines, or over
BetweenLines == pc \in {"loop", "returned", "done"}

\* C1: when a record's transaction raised at any statement after BEGIN and the
\* record has been handled, the four tables (as the session sees them and as
\* committed) are those of just before the record; a driver row the record
\* inserted or overwrote is gone.
C1_FailedRecordLeavesStore ==
    (pc = "loop" /\ outcome = "failed") =>
        (Tables = before /\ committed = before)

\* a record that inserted a driver row and then failed at the grid_ext update
C1_Witness ==
    /\ pc = "loop"
    /\ outcome = "failed"
    /\ failed_at = "grid_ext"
    /\ local.existing_mot_id = None
    /\ Val(local.mot_id) \notin DOMAIN motorista

\* C2: after a rejected line or a failed record the batch goes on: unless the
\* connection is lost, the loop ends only when every line has been taken.
C2_BatchGoesOn ==
    (outcome \in {"layout", "invalid", "failed"}) ~>
        (conn = "lost" \/ (Returned /\ line_number = Len(file_content))
                       \/ (Done /\ line_number = Len(file_content)))

\* a record committed after an earlier line was rejected or failed
C2_Witness ==
    /\ pc = "returned"
    /\ conn = "open"
    /\ outcome = "committed"
    /\ Len(commits) = 1
    /\ commits[1].line > 1

\* C3: a line with fewer than 17 fields, or whose vehicle identifier is no
\* integer, changes none of the four tables and opens no transaction.
C3_RejectedLineLeavesStore ==
    LET line == CurrentLine
    IN  (line_number > 0 /\ (\/ FieldCount(line) < 17
                             \/ ~IsIntLiteral(FirstField(line)))) =>
            /\ BetweenLines
            /\ outcome \in {"layout", "invalid"}
            /\ Tables = before
            /\ committed = before

\* a line with too few fields rejected after a record was committed
C3_Witness ==
    /\ pc = "loop"
    /\ outcome = "layout"
    /\ commits # <<>>
    /\ Tables # [motorista |-> InitialMotorista, grid_ext |-> InitialGridExt,
                 cad_veiculo |-> InitialCadVeiculo,
                 last_datastore |-> InitialLastDatastore]

\* the stored drivers whose national ID is the record's
SameCpf == {d \in DOMAIN motorista : motorista[d].mot_cpf = local.mot_cpf}

\* C4: when the record's canonical national ID is the stored ID of exactly
\* one driver, find_motorista returns that driver, whatever the name.
C4_IdTierFirst ==
    (pc = "upsert" /\ local.mot_cpf # None /\ Cardinality(SameCpf) = 1) =>
        \E d \in SameCpf : local.existing_mot_id = Some(d)

\* the ID is that of one driver and the name is exactly that of another
C4_Witness ==
    /\ pc = "upsert"
    /\ local.mot_cpf # None
    /\ Cardinality(SameCpf) = 1
    /\ \E d \in DOMAIN motorista :
          /\ d \notin SameCpf
          /\ Upper(motorista[d].mot_nom) = Upper(local.mot_nom)

\* t occurs in s
Contains(s, t) ==
    \E i \in 1..(Len(s) - Len(t) + 1) : SubSeq(s, i, i + Len(t) - 1) = t

\* the stored drivers whose uppercased name starts with or contains the
\* record's trimmed uppercased name
SimilarNames ==
    {d \in DOMAIN motorista :
        Contains(Upper(motorista[d].mot_nom), Upper(Strip(local.mot_nom)))}

\* C5: with no usable national ID and two or more stored drivers whose name
\* starts with or contains the record's, find_motorista returns None.
C5_AmbiguousNameIsNone ==
    (pc = "upsert" /\ local.mot_cpf = None /\ Cardinality(SimilarNames) >= 2) =>
        local.existing_mot_id = None

\* the last committed record for vehicle v, when there is one
CommitsOf(v) == {i \in 1..Len(commits) : commits[i].vei_id = v}
LastCommitOf(v) == commits[CHOOSE i \in CommitsOf(v) : \A j \in CommitsOf(v) : j <= i]

\* C6: lines are applied one at a time in input order: between two lines and
\* at the end, the grid_ext row and the cad_veiculo plate of every vehicle
\* hold the values of the last line committed for that vehicle.
C6_LastCommittedLineWins ==
    BetweenLines =>
        /\ \A i \in 1..(Len(commits) - 1) : commits[i].line < commits[i + 1].line
        /\ \A v \in DOMAIN grid_ext :
              CommitsOf(v) # {} =>
                 LET e == LastCommitOf(v)
                 IN  /\ grid_ext[v].placa_car = e.placa_car
                     /\ grid_ext[v].mot_nom = e.mot_nom
                     /\ grid_ext[v].mot_id = e.mot_id
        /\ \A v \in DOMAIN cad_veiculo :
              CommitsOf(v) # {} =>
                 cad_veiculo[v].vei_plc = LastCommitOf(v).vei_plc
        /\ \A v \in (DOMAIN grid_ext) \ {commits[i].vei_id : i \in 1..Len(commits)} :
              grid_ext[v] = InitialGridExt[v]

\* two different lines for one stored vehicle, both committed
C6_Witness ==
    /\ pc = "returned"
    /\ conn = "open"
    /\ Len(commits) >= 2
    /\ commits[1].vei_id = commits[2].vei_id
    /\ commits[1].vei_id \in DOMAIN grid_ext
    /\ file_content[commits[1].line] # file_content[commits[2].line]

\* the digits of the input of formatar_cpf
CpfDigits == SelectSeq(cpf.inp, LAMBDA c : c \in {"0", "1", "2", "3", "4", "5", "6", "7", "8", "9"})

\* C7: formatar_cpf returns the digits as DDD.DDD.DDD-DD when the input holds
\* exactly 11 digits and None otherwise, and formatting its result again
\* returns the same value.
C7_FormatarCpf ==
    /\ cpf.stage \in {"formatted", "formatted again"} =>
          LET d == CpfDigits
          IN  IF Len(d) = 11
              THEN cpf.out = Some(<<d[1], d[2], d[3], ".", d[4], d[5], d[6], ".",
                                    d[7], d[8], d[9], "-", d[10], d[11]>>)
              ELSE cpf.out = None
    /\ cpf.stage = "formatted again" => cpf.again = cpf.out

\* an unformatted input with 11 digits, formatted twice
C7_Witness ==
    /\ cpf.stage = "formatted again"
    /\ cpf.out # None
    /\ cpf.inp # Val(cpf.out)
    /\ Len(cpf.inp) > Len(CpfDigits)

\* the motorista rows the last record added
NewRows == (DOMAIN motorista) \ (DOMAIN before.motorista)

\* C8: a committed record for which find_motorista returned None has added
\* exactly one motorista row, with client id 269, the record's fields and no
\* mot_mat, under an identifier no stored row had, and that identifier is
\* the mot_id of the record's vehicle in grid_ext.
C8_InsertNewDriver ==
    (pc = "loop" /\ outcome = "committed" /\ local.existing_mot_id = None) =>
        /\ Cardinality(NewRows) = 1
        /\ DOMAIN before.motorista \subseteq DOMAIN motorista
        /\ \A n \in NewRows :
              /\ motorista[n] =
                    [cli_id |-> 269, mot_nom |-> local.mot_nom,
                     mot_tel |-> local.mot_tel, mot_cnh |-> local.mot_cnh,
                     mot_cpf |-> local.mot_cpf, mot_rua |-> local.mot_rua,
                     mot_num |-> local.mot_num, mot_bai |-> local.mot_bai,
                     mot_cid |-> local.mot_cid, mot_uf |-> local.mot_uf,
                     mot_mat |-> None]
              /\ local.vei_id \in DOMAIN grid_ext =>
                    grid_ext[local.vei_id].mot_id = Some(n)
        /\ committed = Tables

\* a new driver committed for a vehicle grid_ext holds
C8_Witness ==
    /\ pc = "loop"
    /\ outcome = "committed"
    /\ local.existing_mot_id = None
    /\ local.vei_id \in DOMAIN grid_ext

\* C9: a committed record for which find_motorista returned d has overwritten
\* the mutable columns of row d with the record's values, the absent ones
\* included, and left mot_mat of row d, every other row and the number of
\* rows as they were.
C9_UpdateExistingDriver ==
    (pc = "loop" /\ outcome = "committed" /\ local.existing_mot_id # None) =>
        LET d == Val(local.existing_mot_id)
        IN  /\ DOMAIN motorista = DOMAIN before.motorista
            /\ d \in DOMAIN motorista
            /\ motorista[d].cli_id = 269
            /\ motorista[d].mot_nom = local.mot_nom
            /\ motorista[d].mot_tel = local.mot_tel
            /\ motorista[d].mot_cnh = local.mot_cnh
            /\ motorista[d].mot_cpf = local.mot_cpf
            /\ motorista[d].mot_rua = local.mot_rua
            /\ motorista[d].mot_num = local.mot_num
            /\ motorista[d].mot_bai = local.mot_bai
            /\ motorista[d].mot_cid = local.mot_cid
            /\ motorista[d].mot_uf = local.mot_uf
            /\ motorista[d].mot_mat = before.motorista[d].mot_mat
            /\ \A m \in (DOMAIN motorista) \ {d} : motorista[m] = before.motorista[m]
            /\ committed = Tables

\* a driver with a stored mot_mat and phone, updated by a record with no phone
C9_Witness ==
    /\ pc = "loop"
    /\ outcome = "committed"
    /\ local.existing_mot_id # None
    /\ before.motorista[Val(local.existing_mot_id)].mot_mat # None
    /\ before.motorista[Val(local.existing_mot_id)].mot_tel # None
    /\ local.mot_tel = None

\* C10: grid_ext, cad_veiculo and last_datastore keep the vehicle identifiers
\* they started with, and a committed record whose vehicle is in none of them
\* has its driver row in the committed motorista table.
C10_VehicleTablesOnlyUpdated ==
    /\ DOMAIN grid_ext = DOMAIN InitialGridExt
    /\ DOMAIN cad_veiculo = DOMAIN InitialCadVeiculo
    /\ last_datastore = InitialLastDatastore
    /\ DOMAIN committed.grid_ext = DOMAIN InitialGridExt
    /\ DOMAIN committed.cad_veiculo = DOMAIN InitialCadVeiculo
    /\ committed.last_datastore = InitialLastDatastore
    /\ (/\ pc = "loop"
        /\ outcome = "committed"
        /\ local.vei_id \notin DOMAIN grid_ext
        /\ local.vei_id \notin DOMAIN cad_veiculo
        /\ local.vei_id \notin last_datastore) =>
            /\ local.mot_id # None
            /\ Val(local.mot_id) \in DOMAIN committed.motorista
            /\ committed.motorista[Val(local.mot_id)].mot_nom = local.mot_nom
            /\ committed.motorista[Val(local.mot_id)].mot_cpf = local.mot_cpf

\* a record for a vehicle no table holds, committed with a new driver row
C10_Witness ==
    /\ pc = "loop"
    /\ outcome = "committed"
    /\ local.vei_id \notin DOMAIN grid_ext
    /\ local.vei_id \notin DOMAIN cad_veiculo
    /\ local.vei_id \notin last_datastore
    /\ Val(local.mot_id) \notin DOMAIN before.motorista

\* the fields of the line the loop is at, and its driver reference code
CurrentData == DataOf(CurrentLine)
ReferenceField == CurrentData[7]
NumericReference ==
    /\ ReferenceField # <<>>
    /\ \A i \in 1..Len(ReferenceField) :
          ReferenceField[i] \in {"0", "1", "2", "3", "4", "5", "6", "7", "8", "9"}

\* C11: the driver reference code never rejects a line (a line of 17 fields or
\* more with an integer vehicle identifier is not skipped, whatever its
\* field 7), it is absent after parsing when it is blank, non-numeric or
\* 999999, and it reaches no table: the driver id written for the vehicle is
\* that of the driver found or of the row inserted.
C11_ReferenceIsIgnored ==
    /\ (line_number > 0 /\ FieldCount(CurrentLine) >= 17
                        /\ IsIntLiteral(FirstField(CurrentLine))) =>
            outcome \notin {"layout", "invalid"}
    /\ (pc = "begin" /\ local.mot_id # None) =>
            (NumericReference /\ local.mot_id # Some(999999))
    /\ (pc \in {"grid_ext", "cad_veiculo", "last_datastore", "commit"}) =>
            \/ local.existing_mot_id # None /\ local.mot_id = local.existing_mot_id
            \/ /\ local.existing_mot_id = None
               /\ local.mot_id \in {Some(n) : n \in NewRows}

\* the logged messages of one kind
Logged(msg) == {i \in DOMAIN log : log[i].msg = msg}
SkippedLines ==
    Logged("Erro no layout da linha")
      \cup Logged("ID_FROTA_HPS ou CODIGO_RDC_MOTORISTA invalido na linha")
FailedLines == Logged("Erro na transacao linha")

\* C12: when the batch has ended with the connection open, the script has
\* reported the counts of processed, skipped and failed lines: the committed
\* records, the lines the parser rejected and the records rolled back, which
\* add up to the lines consumed.
C12_FinalSummary ==
    (Done /\ conn = "open") =>
        \E i \in DOMAIN log :
            /\ {"processed", "skipped", "failed"} \subseteq DOMAIN log[i]
            /\ log[i].processed = Len(commits)
            /\ log[i].skipped = Cardinality(SkippedLines)
            /\ log[i].failed = Cardinality(FailedLines)
            /\ log[i].processed + log[i].skipped + log[i].failed = line_number

\* C13: once the connection is severed while the record of line k is being
\* processed, no later line is taken and nothing of line k or after is
\* committed, the store is as committed before line k, and when the script
\* is done it has reported the failure of the run and no success.
C13_SeveredConnectionIsFatal ==
    (conn = "lost") =>
        /\ pc \in {"returned", "done"}
        /\ \A i \in 1..Len(commits) : commits[i].line < line_number
        /\ \A i \in DOMAIN log : "line" \in DOMAIN log[i] => log[i].line < line_number
        /\ committed = before
        /\ Tables = before
        /\ Done => /\ Logged("Erro ao processar o arquivo") # {}
                   /\ Logged("Processo concluido com sucesso!") = {}

\* DDD.DDD.DDD-DD
Canonical(c) ==
    /\ Len(c) = 14
    /\ c[4] = "." /\ c[8] = "." /\ c[12] = "-"
    /\ \A i \in {1, 2, 3, 5, 6, 7, 9, 10, 11, 13, 14} :
          c[i] \in {"0", "1", "2", "3", "4", "5", "6", "7", "8", "9"}
AbsentOrCanonical(mot) ==
    \A d \in DOMAIN mot : mot[d].mot_cpf = None \/ Canonical(Val(mot[d].mot_cpf))

\* C14: the stored national IDs being absent or canonical before the run,
\* every motorista row's national ID is absent or canonical at every moment
\* of the run, in the session and as committed.
C14_CanonicalIdInvariant ==
    /\ AbsentOrCanonical(motorista)
    /\ AbsentOrCanonical(committed.motorista)

\* the national ID field of line n of the file
RawCpf(n) == DataOf(Lines[file_content[n]])[11]

\* two records committed: one with 11 unformatted digits, stored formatted,
\* then one with a partial ID, stored with no ID
C14_Witness ==
    /\ pc = "loop"
    /\ outcome = "committed"
    /\ line_number = 2
    /\ Len(commits) = 2
    /\ AbsentOrCanonical(InitialMotorista)
    /\ Len(RawCpf(1)) = 11
    /\ motorista[Val(commits[1].mot_id)].mot_cpf # None
    /\ Val(motorista[Val(commits[1].mot_id)].mot_cpf) # RawCpf(1)
    /\ Strip(RawCpf(2)) # <<>>
    /\ ~Canonical(RawCpf(2))
    /\ motorista[Val(commits[2].mot_id)].mot_cpf = None

\* C15: when two or more stored drivers have the record's canonical national
\* ID, the ID tier returns none of them: what find_motorista returns is what
\* the name tiers alone return.
C15_IdTierNeedsOneMatch ==
    (pc = "upsert" /\ local.mot_cpf # None /\ Cardinality(SameCpf) >= 2) =>
        local.existing_mot_id \in find_motorista(motorista, local.mot_nom, None)

\* the drivers stored before the last record whose uppercased name starts
\* with or contains the record's, and those with the record's national ID
NameMatchesBefore ==
    {d \in DOMAIN before.motorista :
        Contains(Upper(before.motorista[d].mot_nom), Upper(Strip(local.mot_nom)))}
IdMatchesBefore ==
    {d \in DOMAIN before.motorista :
        local.mot_cpf # None /\ before.motorista[d].mot_cpf = local.mot_cpf}

\* C16: a committed record whose name matches several stored drivers and
\* whose national ID matches none has inserted one motorista row and left
\* every row stored before it as it was.
C16_AmbiguousRecordInserts ==
    (/\ pc = "loop"
     /\ outcome = "committed"
     /\ Cardinality(NameMatchesBefore) >= 2
     /\ IdMatchesBefore = {}) =>
        /\ Cardinality(NewRows) = 1
        /\ \A d \in DOMAIN before.motorista :
              d \in DOMAIN motorista /\ motorista[d] = before.motorista[d]

\* the vehicles whose grid_ext row a committed record has written
WrittenVehicles == {commits[i].vei_id : i \in 1..Len(commits)} \cap DOMAIN grid_ext

\* the places in commits of the last record for vehicle v, and of the records
\* after it that resolved to driver d
LastPlaceOf(v) == CHOOSE i \in CommitsOf(v) : \A j \in CommitsOf(v) : j <= i
LaterRecordsOf(v, d) ==
    {j \in 1..Len(commits) : j > LastPlaceOf(v) /\ commits[j].mot_id = d}

\* C17 as stated: between two lines and at the end, the grid_ext row of every
\* vehicle written during the run names an existing motorista row and holds
\* that row's current name.
C17_DenormalizedNameIsCurrent ==
    BetweenLines =>
        \A v \in WrittenVehicles :
            /\ grid_ext[v].mot_id # None
            /\ Val(grid_ext[v].mot_id) \in DOMAIN motorista
            /\ grid_ext[v].mot_nom = motorista[Val(grid_ext[v].mot_id)].mot_nom

\* C17 as amended: between two lines and at the end, the grid_ext row of every
\* vehicle written during the run names an existing motorista row and holds
\* the name the last record committed for that vehicle gave that row: the
\* row's current name unless a later record resolved to the same driver.
C17_DenormalizedNameAsOfLastRecord ==
    BetweenLines =>
        \A v \in WrittenVehicles :
            /\ grid_ext[v].mot_id # None
            /\ Val(grid_ext[v].mot_id) \in DOMAIN motorista
            /\ grid_ext[v].mot_nom = LastCommitOf(v).mot_nom
            /\ LaterRecordsOf(v, grid_ext[v].mot_id) = {} =>
                  grid_ext[v].mot_nom = motorista[Val(grid_ext[v].mot_id)].mot_nom

\* two records committed for two stored vehicles and one driver, the second
\* with another name
C17_Witness ==
    /\ pc = "loop"
    /\ outcome = "committed"
    /\ Len(commits) = 2
    /\ commits[1].vei_id # commits[2].vei_id
    /\ {commits[1].vei_id, commits[2].vei_id} \subseteq DOMAIN grid_ext
    /\ commits[1].mot_id = commits[2].mot_id
    /\ commits[1].mot_nom # commits[2].mot_nom
    /\ grid_ext[commits[1].vei_id].mot_nom # motorista[Val(commits[1].mot_id)].mot_nom

=============================================================================
